---- MODULE Spec2Model ----
(***************************************************************************)
(* A model of src/todiem.py (class GradeProcessor and main).               *)
(*                                                                         *)
(* Units and encodings used throughout:                                    *)
(*  - a score is either NaN (an empty spreadsheet cell) or a number held   *)
(*    in hundredths: Num(850) is 8.5, Num(846) is 8.46;                    *)
(*  - coordinates are held in tenths of a point: 44.5 is 445, 16.7 is 167; *)
(*  - the text of a word of a PDF page is a sequence of characters, so     *)
(*    that the regular expression and the substring test of the code are   *)
(*    computed character by character;                                     *)
(*  - a text produced by an f-string is the sequence of its pieces:        *)
(*    "Tam ruoi" is <<"Tam", " ruoi">>;                                    *)
(*  - string literals are written without their Vietnamese diacritics,     *)
(*    one letter for one letter: "Vang" is the code's absence marker,      *)
(*    "Khong hop le" its invalid marker, "Diem" its column header.         *)
(***************************************************************************)
EXTENDS Integers, Sequences, FiniteSets, TLC

VARIABLES
  \* ---- one score drawn on one row (convert_to_text, _draw_score_circles)
  score,            \* the score looked up for the student
  column_x,         \* x0 of the grade column header, tenths of a point
  y_adjusted,       \* 832 - top of the student's row, tenths of a point
  grade_text,       \* what convert_to_text returned, None before the call
  row_ops,          \* what the row's drawing put on the canvas
  spc,              \* "input" | "converted" | "drawn"
  \* ---- one call of add_grade_to_pdf on one document
  doc,              \* the input PDF: pages of words [text, x0, top]
  grades,           \* the dict load_excel_data returned: ID -> score
  fontRegistered,   \* whether _register_fonts registered the font 'arial'
  apc,              \* "start" | "pages" | "done"
  grade_column,     \* what find_grade_column returned
  student_positions,\* what extract_student_positions returned
  page_num,         \* the page the loop is at, 0-based
  canvases,         \* the canvas drawn for each page so far
  pdf_writer,       \* the pages added to the writer so far
  output_file,      \* the pages written to output_pdf, None before
  render_failed,    \* the pages (0-based) where a rendering step raised
  ret,              \* what add_grade_to_pdf returned, None before
  log,              \* the error it logged, "" when none
  \* ---- the working directory and one run of main
  work_files,       \* the files of the working directory: [name, content...]
  renamed_files,    \* what the last rename_pdf_files returned: <<old, new>>
  runs,             \* how many times rename_pdf_files has run
  cwdIsWork,        \* whether the working directory is the current one
  cwd_files,        \* the files of the current directory when it is not
  keep,             \* args.keep
  pc,               \* where main is
  input_file,       \* xlsx_files[0], None before Discover
  available_types,  \* what prepare_grade_files returned when not False
  mode,             \* "parallel" | "sequential", "" before the branch of 447
  wstate,           \* per grade type, where its process_grade_type call is
  wtodo,            \* per grade type, the pdf_files still to process
  wfiles,           \* per grade type, the pdf_files it listed
  wcount,           \* per grade type, success_count
  wwritten,         \* per grade type, the output files it wrote
  wlog,             \* per grade type, the warning of its early return
  report,           \* the "processed count files for type" lines logged
  process_result,   \* what process_files returned, "None" before
  cleaned,          \* whether cleanup_files has run
  files_at_start,   \* the working directory when main started
  files_classified, \* the working directory when rename_pdf_files returned
  files_processed   \* the working directory when process_files returned

scoreVars == <<score, column_x, y_adjusted, grade_text, row_ops, spc>>
docVars == <<doc, grades, fontRegistered, apc, grade_column,
             student_positions, page_num, canvases, pdf_writer, output_file,
             render_failed, ret, log>>

dirVars == <<work_files, renamed_files, runs>>

runVars == <<cwdIsWork, cwd_files, keep, pc, input_file, available_types,
             mode, wstate, wtodo, wfiles, wcount, wwritten, wlog, report,
             process_result, cleaned, files_at_start, files_classified,
             files_processed>>

vars == <<scoreVars, docVars, dirVars, runVars>>

\* None, for the variables that otherwise hold a non-empty sequence.
None == <<>>

\* The state of the parts of the model a specification leaves alone.
IdleDoc ==
  /\ doc = <<>>
  /\ grades = <<>>
  /\ fontRegistered = FALSE
  /\ apc = "idle"
  /\ grade_column = None
  /\ student_positions = <<>>
  /\ page_num = 0
  /\ canvases = <<>>
  /\ pdf_writer = <<>>
  /\ output_file = None
  /\ render_failed = {}
  /\ ret = "None"
  /\ log = ""

IdleScore ==
  /\ score = [kind |-> "nan", c |-> 0]
  /\ column_x = 0
  /\ y_adjusted = 0
  /\ grade_text = None
  /\ row_ops = <<>>
  /\ spc = "idle"

IdleDir ==
  /\ work_files = {}
  /\ renamed_files = {}
  /\ runs = 0
IdleRun ==
  /\ cwdIsWork = TRUE
  /\ cwd_files = {}
  /\ keep = FALSE
  /\ pc = "idle"
  /\ input_file = None
  /\ available_types = <<>>
  /\ mode = ""
  /\ wstate = [t \in {"qt", "gk", "ck"} |-> "none"]
  /\ wtodo = [t \in {"qt", "gk", "ck"} |-> {}]
  /\ wfiles = [t \in {"qt", "gk", "ck"} |-> {}]
  /\ wcount = [t \in {"qt", "gk", "ck"} |-> 0]
  /\ wwritten = [t \in {"qt", "gk", "ck"} |-> {}]
  /\ wlog = [t \in {"qt", "gk", "ck"} |-> ""]
  /\ report = <<>>
  /\ process_result = "None"
  /\ cleaned = FALSE
  /\ files_at_start = {}
  /\ files_classified = {}
  /\ files_processed = {}

(***************************************************************************)
(* Scores.                                                                 *)
(***************************************************************************)
NaN == [kind |-> "nan", c |-> 0]
Num(c) == [kind |-> "num", c |-> c]

\* pd.isna(score)
isna(s) == s.kind = "nan"

\* int(score) for a score >= 0: truncation.
IntPart(s) == s.c \div 100

\* score - int(score), in hundredths.
Frac(s) == s.c % 100

\* round(score - int(score), 1) == 0.5 on IEEE-754 doubles, for a score
\* k + h/100 with 0 <= k <= 10. The subtraction is inexact: k.45 - k is just
\* above 0.45 for k in {0,2,...,7} and just below it for k in {1,8,9}; k.55 - k
\* is just below 0.55 for k in 2..7 and just above it for k in {0,1,8,9}.
RoundsToHalf(s) ==
  LET k == IntPart(s)
      h == Frac(s)
  IN  \/ h \in 46..54
      \/ h = 45 /\ k \in {0, 2, 3, 4, 5, 6, 7}
      \/ h = 55 /\ k \in {2, 3, 4, 5, 6, 7}

number_words ==
  <<"Khong", "Mot", "Hai", "Ba", "Bon", "Nam", "Sau", "Bay", "Tam", "Chin">>

\* convert_to_text without the branch of line 138: the half is never worded.
convert_to_text_no_half(s) ==
  IF isna(s) THEN <<"Vang">>
  ELSE IF s.c < 0 \/ s.c > 1000 THEN <<"Khong hop le">>
  ELSE IF IntPart(s) = 10 THEN <<"Muoi">>
  ELSE <<number_words[IntPart(s) + 1]>>

\* GradeProcessor.convert_to_text
convert_to_text(s) ==
  IF isna(s) THEN <<"Vang">>
  ELSE IF s.c < 0 \/ s.c > 1000 THEN <<"Khong hop le">>
  ELSE IF IntPart(s) = 10 THEN <<"Muoi">>
  ELSE IF Frac(s) = 0 THEN <<number_words[IntPart(s) + 1]>>
  ELSE IF RoundsToHalf(s) THEN <<number_words[IntPart(s) + 1], " ruoi">>
  ELSE <<number_words[IntPart(s) + 1]>>

(***************************************************************************)
(* Canvas operations. sv is the student the operation was drawn for (<<>>  *)
(* for the header), n the number a header count prints.                    *)
(***************************************************************************)
DrawString(x, y, text, sv) ==
  [op |-> "drawString", x |-> x, y |-> y, text |-> text, sv |-> sv, n |-> 0]
Circle(x, y, sv) ==
  [op |-> "circle", x |-> x, y |-> y, text |-> <<>>, sv |-> sv, n |-> 0]

\* _draw_score_circles testing score - int(score) == 0.5 without rounding.
draw_score_circles_exact(cx, y, s, sv) ==
  <<Circle(cx + 445 + IntPart(s) * 167, y + 30, sv)>>
  \o (IF Frac(s) = 50 THEN <<Circle(cx + 2290, y + 30, sv)>> ELSE <<>>)

\* GradeProcessor._draw_score_circles
draw_score_circles(cx, y, s, sv) ==
  <<Circle(cx + 445 + IntPart(s) * 167, y + 30, sv)>>
  \o (IF RoundsToHalf(s) THEN <<Circle(cx + 2290, y + 30, sv)>> ELSE <<>>)

\* The body of the loop of _add_student_grades for a student found in grades
\* (lines 276-286): the score text, then the bubbles of a valid score.
StudentRow(cx, y, s, sv) ==
  <<DrawString(cx - 120, y, convert_to_text(s), sv)>>
  \o (IF ~isna(s) /\ 0 <= s.c /\ s.c <= 1000
        THEN draw_score_circles(cx, y, s, sv)
        ELSE <<>>)

(***************************************************************************)
(* Words of a page, the column header and the student ID pattern.          *)
(***************************************************************************)
DigitChars == {"0", "1", "2", "3", "4", "5", "6", "7", "8", "9"}
\* \w of the regular expression, over the characters the model's words use.
WordChars == DigitChars \cup {"D", "i", "e", "m", "_"}

\* re.match(r'\b[1-9]\d{8}\b', text): nine digits at the start of the text,
\* the first not 0, followed by the end of the text or a non-word character.
MatchesStudentId(text) ==
  /\ Len(text) >= 9
  /\ text[1] \in DigitChars \ {"0"}
  /\ \A i \in 2..9 : text[i] \in DigitChars
  /\ Len(text) = 9 \/ text[10] \notin WordChars

\* The header label of find_grade_column.
HeaderLabel == <<"D", "i", "e", "m">>

\* sub in text
Contains(text, sub) ==
  \E i \in 0..(Len(text) - Len(sub)) :
    \A j \in 1..Len(sub) : text[i + j] = sub[j]

\* The words of a document in page/word order, each with its 1-based page.
RECURSIVE WordsFrom(_, _)
WordsFrom(d, p) ==
  IF p > Len(d) THEN <<>>
  ELSE [i \in 1..Len(d[p]) |-> [word |-> d[p][i], page |-> p]]
       \o WordsFrom(d, p + 1)

\* GradeProcessor.find_grade_column: the first word holding the label, as
\* <<x0, top, bottom>>, or None.
find_grade_column(d) ==
  LET ws == WordsFrom(d, 1)
      hits == {i \in 1..Len(ws) : Contains(ws[i].word.text, HeaderLabel)}
  IN  IF hits = {} THEN None
      ELSE LET i == CHOOSE h \in hits : \A g \in hits : h <= g
           IN  <<ws[i].word.x0, ws[i].word.top, ws[i].word.bottom>>

\* student_positions[text] = (x0, y0, page_num) on a dict kept as the sequence
\* of its items in insertion order: a key already there keeps its place and
\* takes the new value.
DictSet(d, key, x0, y0, pg) ==
  LET item == [sv |-> key, x0 |-> x0, top |-> y0, page |-> pg]
  IN  IF \E i \in 1..Len(d) : d[i].sv = key
        THEN [i \in 1..Len(d) |-> IF d[i].sv = key THEN item ELSE d[i]]
        ELSE Append(d, item)

RECURSIVE ScanWords(_, _, _)
ScanWords(ws, i, acc) ==
  IF i > Len(ws) THEN acc
  ELSE ScanWords(ws, i + 1,
         IF MatchesStudentId(ws[i].word.text)
           THEN DictSet(acc, ws[i].word.text, ws[i].word.x0, ws[i].word.top,
                        ws[i].page)
           ELSE acc)

\* GradeProcessor.extract_student_positions
extract_student_positions(d) == ScanWords(WordsFrom(d, 1), 1, <<>>)

\* ma_sv in grades
InGrades(g, sv) == sv \in DOMAIN g

HeaderString(x, y, text, n) ==
  [op |-> "header", x |-> x, y |-> y, text |-> text, sv |-> <<>>, n |-> n]

\* GradeProcessor._add_header_info
add_header_info(total_students, absent_count) ==
  << HeaderString(1250, 935, <<"total_students">>, total_students),
     HeaderString(1250, 750, <<"absent_count">>, absent_count),
     HeaderString(3800, 520, <<"supervisor1">>, 0),
     HeaderString(3800, 150, <<"supervisor2">>, 0),
     HeaderString(5050, 520, <<"grader1">>, 0),
     HeaderString(5050, 150, <<"grader2">>, 0) >>

\* GradeProcessor._add_student_grades: what it draws on the canvas of page
\* pn (0-based), the students taken in the dict's order from item i on.
RECURSIVE StudentGradesFrom(_, _, _, _, _)
StudentGradesFrom(sp, i, g, pn, cx) ==
  IF i > Len(sp) THEN <<>>
  ELSE (IF sp[i].page - 1 # pn THEN <<>>
        ELSE IF InGrades(g, sp[i].sv)
          THEN StudentRow(cx, 8320 - sp[i].top, g[sp[i].sv], sp[i].sv)
          ELSE <<>>)
       \o StudentGradesFrom(sp, i + 1, g, pn, cx)

\* _add_student_grades comparing the 1-based page of a position with the
\* 0-based page number.
add_student_grades_one_based(sp, g, pn, cx) ==
  StudentGradesFrom(sp, 1, g, pn - 1, cx)

add_student_grades(sp, g, pn, cx) == StudentGradesFrom(sp, 1, g, pn, cx)

\* len(student_positions), and the absent count of line 208
total_students_of(sp) == Len(sp)
absent_count_of(sp, g) ==
  Cardinality({i \in 1..Len(sp) : InGrades(g, sp[i].sv) /\ isna(g[sp[i].sv])})

(***************************************************************************)
(* SpecDoc: add_grade_to_pdf on one document.                              *)
(***************************************************************************)
MaxWords == 3
MaxPages == 2

Sv1 == <<"1", "0", "0", "0", "0", "0", "0", "0", "1">>
Sv2 == <<"1", "0", "0", "0", "0", "0", "0", "0", "2">>
TenDigits == <<"1", "0", "0", "0", "0", "0", "0", "0", "1", "2">>
Tokens == {Sv1, Sv2, HeaderLabel, TenDigits}

\* The word a token makes as the i-th word of its page: the rows of a page
\* are 20 points apart, the header stands right of the ID column.
WordAt(tok, i) ==
  [text |-> tok,
   x0 |-> IF tok = HeaderLabel THEN 3000 ELSE 500,
   top |-> 1000 + 200 * i,
   bottom |-> 1100 + 200 * i]

NonDecreasing(f, n) == \A i \in 1..n : \A j \in i..n : f[i] <= f[j]

\* The document of np pages whose n words are toks, the i-th on page pg[i].
MakeDoc(np, n, toks, pg) ==
  [p \in 1..np |->
     LET before == Cardinality({j \in 1..n : pg[j] < p})
         here == Cardinality({j \in 1..n : pg[j] = p})
     IN  [i \in 1..here |-> WordAt(toks[before + i], i)]]

Docs ==
  UNION { UNION { { MakeDoc(np, n, toks, pg) :
                      toks \in [1..n -> Tokens],
                      pg \in {f \in [1..n -> 1..np] : NonDecreasing(f, n)} } :
                  n \in 0..MaxWords } :
          np \in 1..MaxPages }

GradeTables ==
  { (Sv1 :> Num(850)) @@ (Sv2 :> NaN),
    (Sv1 :> Num(846)),
    (Sv1 :> Num(1000)) @@ (Sv2 :> Num(1100)),
    (Sv1 :> Num(700)) @@ (Sv2 :> Num(50)),
    (Sv2 :> Num(300)) }

InitDoc ==
  /\ IdleScore
  /\ IdleDir
  /\ IdleRun
  /\ doc \in Docs
  /\ grades \in GradeTables
  /\ fontRegistered \in BOOLEAN
  /\ apc = "start"
  /\ grade_column = None
  /\ student_positions = <<>>
  /\ page_num = 0
  /\ canvases = <<>>
  /\ pdf_writer = <<>>
  /\ output_file = None
  /\ render_failed = {}
  /\ ret = "None"
  /\ log = ""

\* return False after logger.error(...); msg stands for the logged text, which
\* carries the text of the exception when there is one.
Fail(msg) ==
  /\ ret' = "False"
  /\ log' = msg
  /\ apc' = "done"

\* add_grade_to_pdf, lines 184-214: open the document and find the anchors.
FindAnchors ==
  /\ apc = "start"
  /\ \E readable \in BOOLEAN :
       IF ~readable
         THEN /\ Fail("read error")
              /\ UNCHANGED <<grade_column, student_positions>>
       ELSE IF find_grade_column(doc) = None
         THEN /\ Fail("no grade column")
              /\ grade_column' = None
              /\ UNCHANGED student_positions
       ELSE IF extract_student_positions(doc) = <<>>
         THEN /\ Fail("no student id")
              /\ grade_column' = find_grade_column(doc)
              /\ student_positions' = <<>>
       ELSE /\ grade_column' = find_grade_column(doc)
            /\ student_positions' = extract_student_positions(doc)
            /\ apc' = "pages"
            /\ UNCHANGED <<ret, log>>
  /\ UNCHANGED <<doc, grades, fontRegistered, page_num, canvases, pdf_writer,
                 output_file, render_failed>>
  /\ UNCHANGED <<scoreVars, dirVars, runVars>>

\* The canvas of page pn when every drawing call returns.
PageCanvas(pn) ==
  (IF pn = 0
     THEN add_header_info(total_students_of(student_positions),
                          absent_count_of(student_positions, grades))
     ELSE <<>>)
  \o add_student_grades(student_positions, grades, pn, grade_column[1])

\* One turn of the loop of lines 217-240. can.setFont("arial", 9) raises when
\* the font was never registered, and nothing in the loop catches it; a
\* failure to build or merge the overlay page is caught and logged, and the
\* page is added as it was.
RenderPage ==
  /\ apc = "pages"
  /\ page_num < Len(doc)
  /\ IF ~fontRegistered
       THEN /\ Fail("font error")
            /\ render_failed' = render_failed \cup {page_num}
            /\ UNCHANGED <<page_num, canvases, pdf_writer>>
       ELSE \E merged \in BOOLEAN :
              /\ canvases' = Append(canvases, PageCanvas(page_num))
              /\ pdf_writer' = Append(pdf_writer,
                   [src |-> page_num + 1,
                    marked |-> merged,
                    overlay |-> IF merged THEN PageCanvas(page_num) ELSE <<>>])
              /\ render_failed' =
                   IF merged THEN render_failed
                   ELSE render_failed \cup {page_num}
              /\ page_num' = page_num + 1
              /\ UNCHANGED <<ret, log, apc>>
  /\ UNCHANGED <<doc, grades, fontRegistered, grade_column, student_positions,
                 output_file>>
  /\ UNCHANGED <<scoreVars, dirVars, runVars>>

\* Lines 242-251: write the output document.
WriteOutput ==
  /\ apc = "pages"
  /\ page_num = Len(doc)
  /\ \E written \in BOOLEAN :
       IF written
         THEN /\ output_file' = pdf_writer
              /\ ret' = "True"
              /\ apc' = "done"
              /\ UNCHANGED log
         ELSE /\ Fail("write error")
              /\ UNCHANGED output_file
  /\ UNCHANGED <<doc, grades, fontRegistered, grade_column, student_positions,
                 page_num, canvases, pdf_writer, render_failed>>
  /\ UNCHANGED <<scoreVars, dirVars, runVars>>

NextDoc == FindAnchors \/ RenderPage \/ WriteOutput

SpecDoc == InitDoc /\ [][NextDoc]_vars

(***************************************************************************)
(* File names, as sequences of characters, and the string tests the code   *)
(* makes on them.                                                          *)
(***************************************************************************)
DotPdf == <<".", "p", "d", "f">>
DotXlsx == <<".", "x", "l", "s", "x">>
OutputWord == <<"o", "u", "t", "p", "u", "t">>
OutputPrefix == OutputWord \o <<"_">>
GradePrefix == <<"g", "r", "a", "d", "e", "_">>

\* The grade types, in the order of the dicts grade_columns and keywords.
GradeTypes == <<"qt", "gk", "ck">>
TypeChars(t) ==
  CASE t = "qt" -> <<"q", "t">>
    [] t = "gk" -> <<"g", "k">>
    [] t = "ck" -> <<"c", "k">>

\* keywords.values(): '_qt', '_gk', '_ck'
SuffixOf(t) == <<"_">> \o TypeChars(t)
Suffixes == {SuffixOf(GradeTypes[i]) : i \in 1..3}

\* s.endswith(suf), s.startswith(pre)
EndsWith(str, suf) ==
  /\ Len(str) >= Len(suf)
  /\ \A j \in 1..Len(suf) : str[Len(str) - Len(suf) + j] = suf[j]
StartsWith(str, pre) ==
  /\ Len(str) >= Len(pre)
  /\ \A j \in 1..Len(pre) : str[j] = pre[j]

\* s.lower(), over the letters the model's names use.
LowerChar(c) == CASE c = "O" -> "o" [] c = "A" -> "a" [] OTHER -> c
Lower(str) == [i \in 1..Len(str) |-> LowerChar(str[i])]

\* file_name.rsplit('.', 1)[0]
RSplitDot(str) ==
  LET dots == {i \in 1..Len(str) : str[i] = "."}
  IN  IF dots = {} THEN str
      ELSE SubSeq(str, 1, (CHOOSE i \in dots : \A j \in dots : j <= i) - 1)

\* str(counter)
RECURSIVE Str(_)
Str(n) ==
  LET digit == <<"0", "1", "2", "3", "4", "5", "6", "7", "8", "9">>
  IN  IF n < 10 THEN <<digit[n + 1]>>
      ELSE Str(n \div 10) \o <<digit[(n % 10) + 1]>>

(***************************************************************************)
(* A directory is the set of its files. A file is its name and what the    *)
(* code can find in it: whether it can be read, the keywords in the text   *)
(* of a PDF (kw, as grade types), whether add_grade_to_pdf succeeds on it  *)
(* (ok), whether a spreadsheet has the column StudentID (hasID), which     *)
(* score columns it has (cols), and whether it has the two columns of a    *)
(* grade table (isGrade).                                                  *)
(***************************************************************************)
Names(fs) == {f.name : f \in fs}
\* os.path.exists(os.path.join(directory, name))
Exists(fs, name) == name \in Names(fs)
FileNamed(fs, name) == CHOOSE f \in fs : f.name = name

PdfFile(name, readable, kw, ok) ==
  [name |-> name, readable |-> readable, kw |-> kw, ok |-> ok,
   hasID |-> FALSE, cols |-> {}, isGrade |-> FALSE]
XlsxFile(name, readable, hasID, cols, isGrade) ==
  [name |-> name, readable |-> readable, kw |-> {}, ok |-> FALSE,
   hasID |-> hasID, cols |-> cols, isGrade |-> isGrade]

\* os.rename(old, new)
Rename(fs, old, new) ==
  (fs \ {FileNamed(fs, old)})
  \cup {[FileNamed(fs, old) EXCEPT !.name = new]}

\* Lines 373-377: the suffix of the first keyword of the dict found in the
\* text, None when the text holds none.
SuffixFor(kw) ==
  LET hits == {i \in 1..3 : GradeTypes[i] \in kw}
  IN  IF hits = {} THEN None
      ELSE SuffixOf(GradeTypes[CHOOSE i \in hits : \A j \in hits : i <= j])

\* Lines 382-390: base + suffix + '.pdf' when that name is free, else the
\* first base + suffix + '_' + counter + '.pdf' that is.
RECURSIVE FreeName(_, _, _, _)
FreeName(fs, base, suffix, counter) ==
  LET candidate ==
        IF counter = 0 THEN base \o suffix \o DotPdf
        ELSE base \o suffix \o <<"_">> \o Str(counter) \o DotPdf
  IN  IF Exists(fs, candidate)
        THEN FreeName(fs, base, suffix, counter + 1)
        ELSE candidate

\* One turn of the loop of rename_pdf_files (lines 360-396) on file_name:
\* the directory and the rename map after it.
RenameOne(st, file_name) ==
  IF ~EndsWith(file_name, DotPdf) THEN st
  ELSE IF ~Exists(st.fs, file_name) THEN st
  ELSE LET f == FileNamed(st.fs, file_name)
           suffix == SuffixFor(f.kw)
           base_name == RSplitDot(file_name)
       IN  IF ~f.readable THEN st
           ELSE IF suffix = None THEN st
           ELSE IF \E x \in Suffixes : EndsWith(base_name, x) THEN st
           ELSE LET new_file_name == FreeName(st.fs, base_name, suffix, 0)
                IN  [fs |-> Rename(st.fs, file_name, new_file_name),
                     renamed |-> st.renamed
                                   \cup {<<file_name, new_file_name>>}]

RECURSIVE RenameFrom(_, _, _)
RenameFrom(listing, i, st) ==
  IF i > Len(listing) THEN st
  ELSE RenameFrom(listing, i + 1, RenameOne(st, listing[i]))

\* GradeProcessor.rename_pdf_files, os.listdir having returned listing.
rename_pdf_files(fs, listing) ==
  RenameFrom(listing, 1, [fs |-> fs, renamed |-> {}])

\* The orders os.listdir can return the names of a directory in, as far as
\* rename_pdf_files can tell them apart: line 361 skips every name that does
\* not end with ".pdf", so only the order of the others is kept.
Listings(fs) ==
  LET pdfs == {n \in Names(fs) : EndsWith(n, DotPdf)}
  IN  {l \in [1..Cardinality(pdfs) -> pdfs] :
         \A i \in 1..Cardinality(pdfs) : \A j \in 1..Cardinality(pdfs) :
           i # j => l[i] # l[j]}

(***************************************************************************)
(* SpecClassify: rename_pdf_files run again and again on one directory.    *)
(***************************************************************************)
MaxFiles == 3
MaxRuns == 2

StemA == <<"a">>
StemB == <<"b">>
ClassifyNames ==
  { StemA \o DotPdf,
    StemB \o DotPdf,
    StemA \o SuffixOf("qt") \o DotPdf,
    StemA \o SuffixOf("gk") \o DotPdf }
ClassifyFiles ==
  { PdfFile(n, TRUE, kw, TRUE) : n \in ClassifyNames,
                                   kw \in {{}, {"qt"}, {"gk"}, {"qt", "ck"}} }
  \cup { PdfFile(n, FALSE, {}, FALSE) : n \in ClassifyNames }

UniqueNames(fs) == \A f \in fs : \A g \in fs : f.name = g.name => f = g

InitClassify ==
  /\ IdleScore
  /\ IdleDoc
  /\ IdleRun
  /\ work_files \in {fs \in SUBSET ClassifyFiles :
                       Cardinality(fs) <= MaxFiles /\ UniqueNames(fs)}
  /\ renamed_files = {}
  /\ runs = 0

Classify ==
  /\ runs < MaxRuns
  /\ \E listing \in Listings(work_files) :
       LET st == rename_pdf_files(work_files, listing)
       IN  /\ work_files' = st.fs
           /\ renamed_files' = st.renamed
  /\ runs' = runs + 1
  /\ UNCHANGED <<scoreVars, docVars, runVars>>

NextClassify == Classify

SpecClassify == InitClassify /\ [][NextClassify]_vars

(***************************************************************************)
(* One run of main: process_files, then cleanup_files.                     *)
(***************************************************************************)
TypeSet == {GradeTypes[i] : i \in 1..3}

\* f'grade_{grade_type}.xlsx'
GradeFileName(t) == GradePrefix \o TypeChars(t) \o DotXlsx

\* A file written under a name: it replaces the file of that name, if any.
WriteFile(fs, f) == {g \in fs : g.name # f.name} \cup {f}

\* glob(os.path.join(directory, "*.xlsx"))
XlsxNames(fs) == {n \in Names(fs) : EndsWith(n, DotXlsx)}

\* The list available_types of prepare_grade_files (lines 331-339) for the
\* spreadsheet f, the types taken from i on in the order of grade_columns.
RECURSIVE TypesFrom(_, _)
TypesFrom(f, i) ==
  IF i > 3 THEN <<>>
  ELSE (IF GradeTypes[i] \in f.cols THEN <<GradeTypes[i]>> ELSE <<>>)
       \o TypesFrom(f, i + 1)

\* What prepare_grade_files returns; <<>> stands for False, which the caller
\* tests with "not available_types" as it would an empty list.
prepare_grade_files(f) ==
  IF ~f.readable THEN <<>>
  ELSE IF ~f.hasID THEN <<>>
  ELSE TypesFrom(f, 1)

\* The files grade_df.to_excel(grade_file) writes for the types of a list.
GradeFilesOf(types) ==
  {XlsxFile(GradeFileName(types[i]), TRUE, FALSE, {}, TRUE) :
     i \in 1..Len(types)}

RECURSIVE WriteAll(_, _)
WriteAll(fs, new) ==
  IF new = {} THEN fs
  ELSE LET f == CHOOSE g \in new : TRUE
       IN  WriteAll(WriteFile(fs, f), new \ {f})

\* Lines 407-408: the PDFs process_grade_type takes for a grade type.
PdfFilesFor(fs, t) ==
  {n \in Names(fs) : EndsWith(n, DotPdf) /\ Contains(n, TypeChars(t) \o DotPdf)}

\* load_excel_data(excel_file) is not None
LoadsAsGrades(f) == f.readable /\ f.isGrade

\* f'output_{pdf_file}'
OutputName(n) == OutputPrefix \o n

\* Line 474: a PDF cleanup_files takes for an original.
IsOriginalPdf(n) == EndsWith(n, DotPdf) /\ ~Contains(Lower(n), OutputWord)
\* Line 481: a file cleanup_files takes for a temporary grade file.
IsGradeFile(n) == StartsWith(n, GradePrefix) /\ EndsWith(n, DotXlsx)

\* cleanup_files keeping the grade files too when keep_originals is set.
cleanup_files_keep_all(fs, keep_originals) ==
  IF keep_originals THEN fs
  ELSE {f \in fs : ~IsOriginalPdf(f.name) /\ ~IsGradeFile(f.name)}

\* GradeProcessor.cleanup_files: the directory after it.
cleanup_files(fs, keep_originals) ==
  LET kept == IF keep_originals THEN fs
              ELSE {f \in fs : ~IsOriginalPdf(f.name)}
  IN  {f \in kept : ~IsGradeFile(f.name)}

\* Line 454 read as "the next grade type in submission order".
completed_type_by_order(t) == available_types[Len(report) + 1]

\* Line 454: grade_type = futures[future], for the future of grade type t.
completed_type(t) == t

\* process_files returning False when a category processed no file.
process_files_return_strict ==
  IF \E i \in 1..Len(report) : report[i].count = 0 THEN "False" ELSE "True"

\* Line 465: return True
process_files_return == "True"

MaxPdfs == 2

StemD == <<"d">>
RunPdfNames ==
  {StemA \o DotPdf, StemB \o DotPdf, StemA \o SuffixOf("qt") \o DotPdf}
RunPdfFiles ==
  { PdfFile(n, TRUE, c[1], c[2]) :
      n \in RunPdfNames,
      c \in {<<{"qt"}, TRUE>>, <<{"gk"}, TRUE>>, <<{"gk"}, FALSE>>,
             <<{}, TRUE>>} }
InputSheets ==
  { XlsxFile(StemD \o DotXlsx, c[1], c[2], c[3], FALSE) :
      c \in {<<FALSE, FALSE, {}>>, <<TRUE, FALSE, {"qt", "gk"}>>,
             <<TRUE, TRUE, {}>>, <<TRUE, TRUE, {"qt"}>>,
             <<TRUE, TRUE, {"qt", "gk"}>>,
             <<TRUE, TRUE, {"qt", "gk", "ck"}>>} }
\* A grade file an earlier run left in the working directory.
StaleGradeFile == XlsxFile(GradeFileName("gk"), TRUE, FALSE, {}, TRUE)
RunSheetSets ==
  {{}, {StaleGradeFile}}
  \cup {{f} : f \in InputSheets}
  \cup {{f, StaleGradeFile} : f \in InputSheets}

InitRun ==
  /\ IdleScore
  /\ IdleDoc
  /\ \E pdfs \in {fs \in SUBSET RunPdfFiles :
                    Cardinality(fs) <= MaxPdfs /\ UniqueNames(fs)} :
       \E sheets \in RunSheetSets :
         /\ work_files = pdfs \cup sheets
         /\ files_at_start = pdfs \cup sheets
  /\ renamed_files = {}
  /\ runs = 0
  /\ cwdIsWork \in BOOLEAN
  /\ cwd_files = {}
  /\ keep \in BOOLEAN
  /\ pc = "discover"
  /\ input_file = None
  /\ available_types = <<>>
  /\ mode = ""
  /\ wstate = [t \in TypeSet |-> "none"]
  /\ wtodo = [t \in TypeSet |-> {}]
  /\ wfiles = [t \in TypeSet |-> {}]
  /\ wcount = [t \in TypeSet |-> 0]
  /\ wwritten = [t \in TypeSet |-> {}]
  /\ wlog = [t \in TypeSet |-> ""]
  /\ report = <<>>
  /\ process_result = "None"
  /\ cleaned = FALSE
  /\ files_classified = {}
  /\ files_processed = {}

workerVars == <<wstate, wtodo, wfiles, wcount, wwritten, wlog>>

\* process_files, lines 431-437: no spreadsheet ends the run; else
\* xlsx_files[0] is taken, whichever glob lists first.
Discover ==
  /\ pc = "discover"
  /\ IF XlsxNames(work_files) = {}
       THEN /\ process_result' = "False"
            /\ pc' = "done"
            /\ UNCHANGED input_file
       ELSE /\ \E n \in XlsxNames(work_files) : input_file' = n
            /\ pc' = "split"
            /\ UNCHANGED process_result
  /\ UNCHANGED <<cwdIsWork, cwd_files, keep, available_types, mode, report,
                 cleaned, files_at_start, files_classified, files_processed>>
  /\ UNCHANGED <<scoreVars, docVars, dirVars, workerVars>>

\* process_files, lines 438-441, with the whole of prepare_grade_files: the
\* grade files are written under a relative name, that is, in the current
\* directory.
SplitByCategory ==
  /\ pc = "split"
  /\ LET types == prepare_grade_files(FileNamed(work_files, input_file))
     IN  /\ available_types' = types
         /\ IF cwdIsWork
              THEN /\ work_files' = WriteAll(work_files, GradeFilesOf(types))
                   /\ UNCHANGED cwd_files
              ELSE /\ cwd_files' = WriteAll(cwd_files, GradeFilesOf(types))
                   /\ UNCHANGED work_files
         /\ IF types = <<>>
              THEN /\ process_result' = "False"
                   /\ pc' = "done"
              ELSE /\ pc' = "classify"
                   /\ UNCHANGED process_result
  /\ UNCHANGED <<cwdIsWork, keep, input_file, mode, report, cleaned,
                 files_at_start, files_classified, files_processed>>
  /\ UNCHANGED <<renamed_files, runs>>
  /\ UNCHANGED <<scoreVars, docVars, workerVars>>

\* process_files, line 444: rename_pdf_files(directory).
ClassifyDocuments ==
  /\ pc = "classify"
  /\ \E listing \in Listings(work_files) :
       LET st == rename_pdf_files(work_files, listing)
       IN  /\ work_files' = st.fs
           /\ renamed_files' = st.renamed
           /\ files_classified' = st.fs
  /\ runs' = runs + 1
  /\ pc' = "process"
  /\ UNCHANGED <<cwdIsWork, cwd_files, keep, input_file, available_types,
                 mode, report, process_result, cleaned, files_at_start,
                 files_processed>>
  /\ UNCHANGED <<scoreVars, docVars, workerVars>>

\* Lines 447-452: with more than one type, every process_grade_type call is
\* submitted to the pool, whose default size is above three.
SubmitAll ==
  /\ pc = "process"
  /\ Len(available_types) > 1
  /\ mode' = "parallel"
  /\ wstate' = [t \in TypeSet |->
                  IF \E i \in 1..Len(available_types) : available_types[i] = t
                    THEN "queued" ELSE "none"]
  /\ pc' = "collect"
  /\ UNCHANGED <<cwdIsWork, cwd_files, keep, input_file, available_types,
                 report, process_result, cleaned, files_at_start,
                 files_classified, files_processed>>
  /\ UNCHANGED <<wtodo, wfiles, wcount, wwritten, wlog>>
  /\ UNCHANGED <<scoreVars, docVars, dirVars>>

\* Lines 461-462: with one type, process_grade_type is called in the loop.
CallSequential ==
  /\ pc = "process"
  /\ Len(available_types) <= 1
  /\ mode' = "sequential"
  /\ wstate' = [wstate EXCEPT ![available_types[Len(report) + 1]] = "queued"]
  /\ pc' = "call"
  /\ UNCHANGED <<cwdIsWork, cwd_files, keep, input_file, available_types,
                 report, process_result, cleaned, files_at_start,
                 files_classified, files_processed>>
  /\ UNCHANGED <<wtodo, wfiles, wcount, wwritten, wlog>>
  /\ UNCHANGED <<scoreVars, docVars, dirVars>>

\* process_grade_type returning 0 after a warning.
ReturnZero(t, msg) ==
  /\ wstate' = [wstate EXCEPT ![t] = "returned"]
  /\ wlog' = [wlog EXCEPT ![t] = msg]
  /\ UNCHANGED <<wtodo, wfiles, wcount, wwritten>>

\* process_grade_type, lines 402-405: the grade file is looked for in the
\* working directory.
CheckGradeFile(t) ==
  /\ wstate[t] = "queued"
  /\ IF ~Exists(work_files, GradeFileName(t))
       THEN ReturnZero(t, "no excel file")
       ELSE /\ wstate' = [wstate EXCEPT ![t] = "listing"]
            /\ UNCHANGED <<wtodo, wfiles, wcount, wwritten, wlog>>
  /\ UNCHANGED <<cwdIsWork, cwd_files, keep, pc, input_file, available_types,
                 mode, report, process_result, cleaned, files_at_start,
                 files_classified, files_processed>>
  /\ UNCHANGED <<scoreVars, docVars, dirVars>>

\* process_grade_type, lines 407-418: list the PDFs, load the grades.
ListPdfFiles(t) ==
  /\ wstate[t] = "listing"
  /\ IF PdfFilesFor(work_files, t) = {}
       THEN ReturnZero(t, "no pdf file")
     ELSE IF ~Exists(work_files, GradeFileName(t))
             \/ ~LoadsAsGrades(FileNamed(work_files, GradeFileName(t)))
       THEN ReturnZero(t, "no grades")
     ELSE /\ wstate' = [wstate EXCEPT ![t] = "working"]
          /\ wfiles' = [wfiles EXCEPT ![t] = PdfFilesFor(work_files, t)]
          /\ wtodo' = [wtodo EXCEPT ![t] = PdfFilesFor(work_files, t)]
          /\ UNCHANGED <<wcount, wwritten, wlog>>
  /\ UNCHANGED <<cwdIsWork, cwd_files, keep, pc, input_file, available_types,
                 mode, report, process_result, cleaned, files_at_start,
                 files_classified, files_processed>>
  /\ UNCHANGED <<scoreVars, docVars, dirVars>>

\* process_grade_type, lines 419-424: one turn of the loop, the whole of
\* add_grade_to_pdf on one PDF, which writes output_<name> when it succeeds.
AddGrade(t) ==
  /\ wstate[t] = "working"
  /\ \E n \in wtodo[t] :
       /\ wtodo' = [wtodo EXCEPT ![t] = @ \ {n}]
       /\ IF /\ Exists(work_files, n)
             /\ FileNamed(work_files, n).readable
             /\ FileNamed(work_files, n).ok
            THEN /\ work_files' =
                      WriteFile(work_files,
                                [FileNamed(work_files, n)
                                   EXCEPT !.name = OutputName(n)])
                 /\ wcount' = [wcount EXCEPT ![t] = @ + 1]
                 /\ wwritten' = [wwritten EXCEPT ![t] = @ \cup {OutputName(n)}]
            ELSE UNCHANGED <<work_files, wcount, wwritten>>
  /\ UNCHANGED <<wstate, wfiles, wlog>>
  /\ UNCHANGED <<cwdIsWork, cwd_files, keep, pc, input_file, available_types,
                 mode, report, process_result, cleaned, files_at_start,
                 files_classified, files_processed>>
  /\ UNCHANGED <<renamed_files, runs>>
  /\ UNCHANGED <<scoreVars, docVars>>

\* process_grade_type, line 426: return success_count.
ReturnCount(t) ==
  /\ wstate[t] = "working"
  /\ wtodo[t] = {}
  /\ wstate' = [wstate EXCEPT ![t] = "returned"]
  /\ UNCHANGED <<wtodo, wfiles, wcount, wwritten, wlog>>
  /\ UNCHANGED <<cwdIsWork, cwd_files, keep, pc, input_file, available_types,
                 mode, report, process_result, cleaned, files_at_start,
                 files_classified, files_processed>>
  /\ UNCHANGED <<scoreVars, docVars, dirVars>>

Reported(t) == \E i \in 1..Len(report) : report[i].future = t

\* Lines 453-459: as_completed yields a finished future, in whatever order
\* the futures finish; its count is logged under futures[future]. result()
\* returns: the calls of process_grade_type that can fail are made under the
\* try of load_excel_data and of add_grade_to_pdf, and its os.listdir lists
\* the directory rename_pdf_files has just listed in the same run.
CollectResult(t) ==
  /\ pc = "collect"
  /\ wstate[t] = "returned"
  /\ ~Reported(t)
  /\ report' = Append(report, [future |-> t,
                               grade_type |-> completed_type(t),
                               count |-> wcount[t]])
  /\ UNCHANGED <<cwdIsWork, cwd_files, keep, pc, input_file, available_types,
                 mode, process_result, cleaned, files_at_start,
                 files_classified, files_processed>>
  /\ UNCHANGED <<scoreVars, docVars, dirVars, workerVars>>

\* Lines 462-463: the call of the loop has returned; its count is logged.
LogSequential(t) ==
  /\ pc = "call"
  /\ wstate[t] = "returned"
  /\ ~Reported(t)
  /\ report' = Append(report, [future |-> t, grade_type |-> t,
                               count |-> wcount[t]])
  /\ pc' = "collect"
  /\ UNCHANGED <<cwdIsWork, cwd_files, keep, input_file, available_types,
                 mode, process_result, cleaned, files_at_start,
                 files_classified, files_processed>>
  /\ UNCHANGED <<scoreVars, docVars, dirVars, workerVars>>

\* Line 465, reached when every type has been reported.
ProcessFilesReturns ==
  /\ pc = "collect"
  /\ Len(report) = Len(available_types)
  /\ process_result' = process_files_return
  /\ files_processed' = work_files
  /\ pc' = IF process_files_return = "True" THEN "cleanup" ELSE "done"
  /\ UNCHANGED <<cwdIsWork, cwd_files, keep, input_file, available_types,
                 mode, report, cleaned, files_at_start, files_classified>>
  /\ UNCHANGED <<scoreVars, docVars, dirVars, workerVars>>

\* main, line 517, with the whole of cleanup_files.
Cleanup ==
  /\ pc = "cleanup"
  /\ work_files' = cleanup_files(work_files, keep)
  /\ cleaned' = TRUE
  /\ pc' = "done"
  /\ UNCHANGED <<cwdIsWork, cwd_files, keep, input_file, available_types,
                 mode, report, process_result, files_at_start,
                 files_classified, files_processed>>
  /\ UNCHANGED <<renamed_files, runs>>
  /\ UNCHANGED <<scoreVars, docVars, workerVars>>

NextRun ==
  \/ Discover
  \/ SplitByCategory
  \/ ClassifyDocuments
  \/ SubmitAll
  \/ CallSequential
  \/ \E t \in TypeSet : CheckGradeFile(t)
  \/ \E t \in TypeSet : ListPdfFiles(t)
  \/ \E t \in TypeSet : AddGrade(t)
  \/ \E t \in TypeSet : ReturnCount(t)
  \/ \E t \in TypeSet : CollectResult(t)
  \/ \E t \in TypeSet : LogSequential(t)
  \/ ProcessFilesReturns
  \/ Cleanup

SpecRun == InitRun /\ [][NextRun]_vars

(***************************************************************************)
(* SpecScore: one score, converted and drawn on one row.                   *)
(***************************************************************************)
Below == 100
Above == 1100
Scores == {NaN} \cup {Num(c) : c \in (0 - Below)..Above}
ColumnXs == {1000, 3055}
RowYs == {7000}

InitScore ==
  /\ IdleDoc
  /\ IdleDir
  /\ IdleRun
  /\ score \in Scores
  /\ column_x \in ColumnXs
  /\ y_adjusted \in RowYs
  /\ grade_text = None
  /\ row_ops = <<>>
  /\ spc = "input"

ConvertScore ==
  /\ spc = "input"
  /\ grade_text' = convert_to_text(score)
  /\ spc' = "converted"
  /\ UNCHANGED <<score, column_x, y_adjusted, row_ops>>
  /\ UNCHANGED <<docVars, dirVars, runVars>>

DrawRow ==
  /\ spc = "converted"
  /\ row_ops' = StudentRow(column_x, y_adjusted, score, Sv1)
  /\ spc' = "drawn"
  /\ UNCHANGED <<score, column_x, y_adjusted, grade_text>>
  /\ UNCHANGED <<docVars, dirVars, runVars>>

NextScore == ConvertScore \/ DrawRow

SpecScore == InitScore /\ [][NextScore]_vars

(***************************************************************************)
(* Claims about one document (SpecDoc).                                    *)
(***************************************************************************)
AnchorsFound == apc = "pages" \/ (apc = "done" /\ student_positions # <<>>)

\* The index in page/word order of the first word whose text is sv.
FirstOccurrence(ws, sv) ==
  CHOOSE i \in 1..Len(ws) :
    /\ ws[i].word.text = sv
    /\ \A j \in 1..(i - 1) : ws[j].word.text # sv

\* C2: extract_student_positions returns exactly one position per distinct
\* student ID of the document, and it is the position of the ID's first
\* occurrence in page/word order.
C2_FirstOccurrenceWins ==
  AnchorsFound =>
    LET ws == WordsFrom(doc, 1)
        ids == {ws[i].word.text : i \in {j \in 1..Len(ws) :
                                          MatchesStudentId(ws[j].word.text)}}
    IN  /\ {student_positions[i].sv : i \in 1..Len(student_positions)} = ids
        /\ Len(student_positions) = Cardinality(ids)
        /\ \A i \in 1..Len(student_positions) :
             LET e == student_positions[i]
                 f == ws[FirstOccurrence(ws, e.sv)]
             IN  /\ e.x0 = f.word.x0
                 /\ e.top = f.word.top
                 /\ e.page = f.page

\* C5: a failure while rendering the overlay of a page is fatal to that
\* page's overlay only: the document is still written with every source
\* page, the failed pages unmarked, and the call returns True.
C5_RenderFailureIsPerPage ==
  (apc = "done" /\ render_failed # {} /\ log # "write error") =>
    /\ ret = "True"
    /\ Len(output_file) = Len(doc)
    /\ \A p \in render_failed : ~output_file[p + 1].marked

\* The score texts drawn for student sv on the canvas of page q (1-based).
TextsFor(q, sv) ==
  {k \in 1..Len(canvases[q]) :
     canvases[q][k].op = "drawString" /\ canvases[q][k].sv = sv}

\* grades.get(sv): the looked-up score, absence for an ID not in the table.
Lookup(sv) == IF InGrades(grades, sv) THEN grades[sv] ELSE NaN

\* C7 as claimed: every positioned student, in the grade table or not, has
\* the word form of the looked-up score on the overlay of the student's page.
C7_EveryPositionedStudentHasText ==
  \A q \in 1..Len(canvases) : \A i \in 1..Len(student_positions) :
    LET e == student_positions[i]
    IN  e.page = q =>
          \E k \in TextsFor(q, e.sv) :
            /\ canvases[q][k].x = grade_column[1] - 120
            /\ canvases[q][k].y = 8320 - e.top
            /\ canvases[q][k].text = convert_to_text(Lookup(e.sv))

\* C7 amended: a positioned student whose ID is in the grade table has the
\* word form of the score exactly once, on the overlay of the student's page
\* and of no other, at x = columnX - 12, y = 832 - studentTop; a positioned
\* student whose ID is not in the grade table has no text on any overlay.
C7_TextOfStudentsInGrades ==
  \A q \in 1..Len(canvases) : \A i \in 1..Len(student_positions) :
    LET e == student_positions[i]
    IN  IF InGrades(grades, e.sv) /\ e.page = q
          THEN /\ Cardinality(TextsFor(q, e.sv)) = 1
               /\ \A k \in TextsFor(q, e.sv) :
                    /\ canvases[q][k].x = grade_column[1] - 120
                    /\ canvases[q][k].y = 8320 - e.top
                    /\ canvases[q][k].text = convert_to_text(grades[e.sv])
          ELSE TextsFor(q, e.sv) = {}

\* A second page was rendered with the text of a student of the grade table
\* on it, and a student who is not in the grade table stands on a rendered
\* page too.
C7_Witness ==
  /\ Len(canvases) = 2
  /\ \E i \in 1..Len(student_positions) :
       /\ student_positions[i].page = 2
       /\ InGrades(grades, student_positions[i].sv)
       /\ TextsFor(2, student_positions[i].sv) # {}
  /\ \E i \in 1..Len(student_positions) :
       ~InGrades(grades, student_positions[i].sv)

(***************************************************************************)
(* Claims about one score (SpecScore).                                     *)
(***************************************************************************)
\* The 21 valid scores 0, 0.5, ..., 10, in hundredths.
ValidHalfSteps == {50 * k : k \in 0..20}

\* The string the claim fixes for a valid score.
FixedString(c) ==
  IF c = 1000 THEN <<"Muoi">>
  ELSE IF c % 100 = 0 THEN <<number_words[(c \div 100) + 1]>>
  ELSE <<number_words[(c \div 100) + 1], " ruoi">>

\* C8: convert_to_text returns, for each of the 21 valid scores, its own
\* fixed string (the word of the integer part, with the half suffix for k.5,
\* the word for ten for 10), none of them the absence or the invalid marker;
\* the absence marker for an absent score; the invalid marker for -1 and 11.
C8_ConvertToText ==
  spc \in {"converted", "drawn"} =>
    /\ isna(score) => grade_text = <<"Vang">>
    /\ (~isna(score) /\ score.c \in {0 - 100, 1100}) =>
         grade_text = <<"Khong hop le">>
    /\ (~isna(score) /\ score.c \in ValidHalfSteps) =>
         /\ grade_text = FixedString(score.c)
         /\ grade_text \notin {<<"Vang">>, <<"Khong hop le">>}
         /\ \A d \in ValidHalfSteps :
              d # score.c => FixedString(d) # grade_text

C8_Witness ==
  /\ spc = "converted"
  /\ score = Num(850)
  /\ grade_text = <<"Tam", " ruoi">>

Circles == {k \in 1..Len(row_ops) : row_ops[k].op = "circle"}
IntegerBubbles ==
  {k \in Circles :
     /\ row_ops[k].x = column_x + 445 + (score.c \div 100) * 167
     /\ row_ops[k].y = y_adjusted + 30}
HalfBubbles ==
  {k \in Circles :
     /\ row_ops[k].x = column_x + 2290
     /\ row_ops[k].y = y_adjusted + 30}
ValidScore == ~isna(score) /\ 0 <= score.c /\ score.c <= 1000
HasHalfSuffix(text) == Len(text) = 2 /\ text[2] = " ruoi"

\* C9 as claimed: a drawn valid score has one integer bubble, and a second
\* bubble at columnX + 229 if and only if its fractional part is 0.5.
C9_HalfBubbleIffFractionIsHalf ==
  (spc = "drawn" /\ ValidScore) =>
    /\ Cardinality(IntegerBubbles) = 1
    /\ (HalfBubbles # {}) <=> (score.c % 100 = 50)

\* C9 amended: a drawn valid score has exactly one integer bubble at
\* x = columnX + 44.5 + floor(s) * 16.7, y = drawY + 3, and one second bubble
\* at x = columnX + 229 on the same row if and only if the score text carries
\* the half suffix, which is when the fractional part rounds to 0.5 at one
\* decimal: always from 0.46 to 0.54, never below 0.45 or above 0.55. An
\* absent or out-of-range score has no bubble.
C9_Bubbles ==
  spc = "drawn" =>
    IF ValidScore
      THEN /\ Cardinality(IntegerBubbles) = 1
           /\ Cardinality(HalfBubbles) <= 1
           /\ Circles = IntegerBubbles \cup HalfBubbles
           /\ (HalfBubbles # {}) <=> HasHalfSuffix(grade_text)
           /\ (score.c % 100) \in 46..54 => HalfBubbles # {}
           /\ ((score.c % 100) < 45 \/ (score.c % 100) > 55) => HalfBubbles = {}
      ELSE Circles = {}

C9_Witness ==
  /\ spc = "drawn"
  /\ score = Num(850)
  /\ column_x = 1000
  /\ \E k \in IntegerBubbles : row_ops[k].x = 2781
  /\ \E k \in HalfBubbles : row_ops[k].x = 3290

(***************************************************************************)
(* Claims about classification (SpecClassify).                             *)
(***************************************************************************)
\* C3: once rename_pdf_files has run on a directory, every later run on the
\* unchanged directory renames nothing and returns an empty rename map.
C3_SecondRunRenamesNothing ==
  runs >= 2 => renamed_files = {}

(***************************************************************************)
(* Claims about one run (SpecRun).                                         *)
(***************************************************************************)
Available == {available_types[i] : i \in 1..Len(available_types)}

\* What decides, in the directory rename_pdf_files left, that the worker of
\* grade type t returns early: its own grade file or its own documents.
FailsAlone(t) ==
  \/ ~Exists(files_classified, GradeFileName(t))
  \/ PdfFilesFor(files_classified, t) = {}
  \/ ~LoadsAsGrades(FileNamed(files_classified, GradeFileName(t)))

\* The outputs the documents of grade type t call for, in that directory.
OutputsDue(t) ==
  IF FailsAlone(t) THEN {}
  ELSE {OutputName(n) : n \in {m \in PdfFilesFor(files_classified, t) :
                                 /\ FileNamed(files_classified, m).readable
                                 /\ FileNamed(files_classified, m).ok}}

\* C1: when process_files has run two or more categories concurrently, every
\* worker has run to completion whatever the others did: each category's
\* outputs are those its own documents call for, a failure is logged for the
\* failing category only, and each logged count stands under the category
\* whose worker counted it, in every completion order.
C1_CategoriesIsolated ==
  (mode = "parallel" /\ process_result = "True") =>
    \A t \in Available :
      /\ wstate[t] = "returned"
      /\ Cardinality({i \in 1..Len(report) : report[i].grade_type = t}) = 1
      /\ \A i \in 1..Len(report) :
           report[i].grade_type = t =>
             /\ report[i].count = wcount[t]
             /\ report[i].count = Cardinality(wwritten[t])
      /\ wwritten[t] = OutputsDue(t)
      /\ \A n \in wwritten[t] : Exists(files_processed, n)
      /\ (wlog[t] # "") <=> FailsAlone(t)

\* A concurrent run where one category failed, another wrote an output, and
\* the first future to complete was not the first submitted.
C1_Witness ==
  /\ mode = "parallel"
  /\ process_result = "True"
  /\ \E t \in Available : wlog[t] # ""
  /\ \E t \in Available : wcount[t] >= 1
  /\ report[1].grade_type # available_types[1]

\* C4: process_files returns True exactly when a spreadsheet was found and
\* the one taken has the ID column and a score column; then Classify, every
\* category and Cleanup have run, whatever failed in them; otherwise the run
\* ended before any of them.
C4_OverallSuccess ==
  pc = "done" =>
    LET discovered == XlsxNames(files_at_start) # {}
        split == /\ discovered
                 /\ FileNamed(files_at_start, input_file).readable
                 /\ FileNamed(files_at_start, input_file).hasID
                 /\ FileNamed(files_at_start, input_file).cols # {}
    IN  /\ (process_result = "True") <=> split
        /\ split =>
             /\ runs = 1
             /\ Len(report) = Len(available_types)
             /\ \A t \in Available : wstate[t] = "returned"
             /\ cleaned
        /\ ~split =>
             /\ process_result = "False"
             /\ runs = 0
             /\ renamed_files = {}
             /\ report = <<>>
             /\ \A t \in TypeSet : wstate[t] = "none"
             /\ ~cleaned

\* A run that succeeded although a category processed no file.
C4_Witness ==
  /\ pc = "done"
  /\ process_result = "True"
  /\ \E i \in 1..Len(report) : report[i].count = 0
  /\ \E i \in 1..Len(report) : report[i].count > 0

\* C6 as claimed, for the files of the working directory: with the retain
\* flag Cleanup leaves the originals and the grade files in place, without it
\* Cleanup removes both, and it never removes an output document.
C6_RetainKeepsGradeFiles ==
  (pc = "done" /\ cleaned) =>
    /\ keep =>
         \A f \in files_processed :
           (IsOriginalPdf(f.name) \/ IsGradeFile(f.name)) => f \in work_files
    /\ ~keep =>
         \A f \in work_files : ~IsOriginalPdf(f.name) /\ ~IsGradeFile(f.name)
    /\ \A f \in files_processed :
         StartsWith(f.name, OutputPrefix) => f \in work_files

\* C6 amended: Cleanup removes every grade_<category>.xlsx of the working
\* directory whether or not retention is requested; the retain flag decides
\* for the original documents only: with it they all stay, without it every
\* .pdf whose name does not hold "output" is removed. No output_<name>
\* document and no other file is removed, and nothing is removed outside the
\* working directory.
C6_Cleanup ==
  (pc = "done" /\ cleaned) =>
    /\ \A f \in work_files : ~IsGradeFile(f.name)
    /\ keep =>
         \A f \in files_processed : EndsWith(f.name, DotPdf) => f \in work_files
    /\ ~keep => \A f \in work_files : ~IsOriginalPdf(f.name)
    /\ \A f \in files_processed :
         StartsWith(f.name, OutputPrefix) => f \in work_files
    /\ \A f \in files_processed :
         (~IsGradeFile(f.name) /\ ~EndsWith(f.name, DotPdf)) => f \in work_files
    /\ work_files \subseteq files_processed
    /\ ~cwdIsWork => \A t \in Available : Exists(cwd_files, GradeFileName(t))

\* Cleanup has run with the retain flag on a working directory that held a
\* grade file, an original and an output.
C6_Witness ==
  /\ pc = "done"
  /\ cleaned
  /\ keep
  /\ \E f \in files_processed : IsGradeFile(f.name)
  /\ \E f \in work_files : IsOriginalPdf(f.name)
  /\ \E f \in work_files : StartsWith(f.name, OutputPrefix)

\* C10: every category prepare_grade_files reports as available has its
\* grade file where process_grade_type looks for it, so no worker of an
\* available category returns 0 for want of its grade file.
C10_GradeFileWhereWorkerLooks ==
  /\ pc \in {"classify", "process", "collect", "call"} =>
       \A t \in Available : Exists(work_files, GradeFileName(t))
  /\ \A t \in Available : wlog[t] # "no excel file"

\* The documents rename_pdf_files has assigned to grade type t in this run:
\* a readable PDF whose text holds the keyword of t first, and which was
\* renamed (line 392) or left alone for its name ending with the suffix of
\* t already.
RenamedTo == {r[2] : r \in renamed_files}
Assigned(t) ==
  {f.name : f \in {g \in files_classified :
                     /\ EndsWith(g.name, DotPdf)
                     /\ g.readable
                     /\ SuffixFor(g.kw) = SuffixOf(t)
                     /\ \/ g.name \in RenamedTo
                        \/ EndsWith(RSplitDot(g.name), SuffixOf(t))}}

\* The worker of grade type t has made its selection of line 407, which
\* wfiles[t] holds.
HasSelected(t) ==
  \/ wstate[t] = "working"
  \/ wstate[t] = "returned" /\ wlog[t] \in {"", "no pdf file"}

\* C11: every document rename_pdf_files has assigned to a category in a
\* run, renamed with the suffix (with or without a numeric disambiguator) or
\* left alone for ending with it, is selected by the process_grade_type of
\* that category in the same run, and by the worker of no other category.
C11_AssignedIsSelected ==
  \A t \in TypeSet :
    HasSelected(t) =>
      /\ Assigned(t) \subseteq wfiles[t]
      /\ \A u \in TypeSet \ {t} : Assigned(u) \cap wfiles[t] = {}

\* The input documents Cleanup has deleted: the PDFs process_files left in
\* the working directory that are there no more.
DeletedByCleanup ==
  {f.name : f \in {g \in files_processed \ work_files :
                     EndsWith(g.name, DotPdf)}}

\* C12, for a run started in its working directory: after a complete run
\* of main without the retain flag, every input document Cleanup has deleted
\* has its output_<name> document in the working directory; an original
\* whose processing failed, that was never classified or that no category
\* matched is not deleted.
C12_DeletedHaveOutput ==
  (pc = "done" /\ cleaned /\ ~keep /\ cwdIsWork) =>
    \A n \in DeletedByCleanup : Exists(work_files, OutputName(n))

====
